---- MODULE Spec2Model ----
(***************************************************************************)
(* Verification model of nail (src/src/lib.rs): the scanner that replaces  *)
(* runs of 10 or 13 ASCII digits by a bracketed UTC date-time.             *)
(*                                                                         *)
(* Bytes are u8 values (ASCII codes), byte strings are sequences of them.  *)
(* i64 values that exceed TLC's integers are held as little-endian         *)
(* sequences of base-1000 limbs ("wide" numbers, <<>> is zero).            *)
(***************************************************************************)
EXTENDS Integers, Sequences, FiniteSets, TLC

VARIABLES
    input,               \* &[u8] argument of the current call
    input_length,        \* usize argument of the current call
    end_of_input,        \* bool argument of the current call
    index,               \* loop counter of `for index in 0..input_length`
    replaced,            \* Vec<u8> replaced
    integer_accumulator, \* Vec<u8> integer_accumulator
    pc,                  \* position of the call
    data,                \* ReplacementResult.data
    left_over_data,      \* ReplacementResult.left_over_data
    source,              \* the logical input a driver cuts into chunks
    offset,              \* bytes of source already handed over
    written,             \* concatenation of the data returned so far
    calls                \* calls a driver has made for source

vars == <<input, input_length, end_of_input, index, replaced,
          integer_accumulator, pc, data, left_over_data, source, offset,
          written, calls>>

(***************************************************************************)
(* Program constants                                                       *)
(***************************************************************************)
DIGITS_IN_EPOCH_SECOND_TIMESTAMP == 10
DIGITS_IN_EPOCH_MILLISECOND_TIMESTAMP == 13
NANOS_PER_MILLISECOND == 1000000
BUFFER_SIZE == 1024

(***************************************************************************)
(* Bounds of the model                                                     *)
(***************************************************************************)
MaxLen == 16
MaxSource == 12
MaxChunks == 3
MaxTail == 2
MaxFiles == 2

(***************************************************************************)
(* Helpers on byte strings                                                 *)
(***************************************************************************)
\* is_ascii_digit with the upper end off by one: ':' counts as a digit
IsAsciiDigitOrColon(b) == b >= 48 /\ b <= 58

\* u8::is_ascii_digit: b'0'..=b'9'
IsAsciiDigit(b) == b >= 48 /\ b <= 57

\* append_bytes: push every byte of in onto output
append_bytes(in, output) == output \o in

(***************************************************************************)
(* Wide (i64) arithmetic on base-1000 limbs, least significant limb first  *)
(***************************************************************************)
RECURSIVE WideMulAdd(_, _, _)
\* w * m + c, for a small multiplier m and a small addend c
WideMulAdd(w, m, c) ==
    IF w = <<>>
    THEN (IF c = 0 THEN <<>> ELSE <<c>>)
    ELSE LET t == Head(w) * m + c
         IN  <<t % 1000>> \o WideMulAdd(Tail(w), m, t \div 1000)

\* w.rem(1000), for w >= 0
WideRem1000(w) == IF w = <<>> THEN 0 ELSE Head(w)

\* w / 1000, for w >= 0
WideDiv1000(w) == IF w = <<>> THEN <<>> ELSE Tail(w)

RECURSIVE WideDivMod(_, _)
\* quotient and remainder of w by the small divisor n (quotient fits an int)
WideDivMod(w, n) ==
    IF w = <<>>
    THEN [q |-> 0, r |-> 0]
    ELSE LET hi == WideDivMod(Tail(w), n)
             t  == hi.r * 1000 + Head(w)
         IN  [q |-> hi.q * 1000 + t \div n, r |-> t % n]

(***************************************************************************)
(* chrono: Utc.timestamp(seconds, nanos) and its Display, "{}"             *)
(***************************************************************************)
RECURSIVE PadDec(_, _)
\* {:0width}: the decimal digits of n, zero-padded to width bytes
PadDec(n, width) ==
    IF width = 0
    THEN <<>>
    ELSE Append(PadDec(n \div 10, width - 1), 48 + (n % 10))

\* NaiveDate of a day count since 1970-01-01 (proleptic Gregorian calendar)
CivilFromDays(days) ==
    LET z     == days + 719468
        era   == z \div 146097
        doe   == z - era * 146097
        yoe   == (doe - doe \div 1460 + doe \div 36524 - doe \div 146096) \div 365
        doy   == doe - (365 * yoe + yoe \div 4 - yoe \div 100)
        mp    == (5 * doy + 2) \div 153
        day   == doy - (153 * mp + 2) \div 5 + 1
        month == IF mp < 10 THEN mp + 3 ELSE mp - 9
        year  == yoe + era * 400 + (IF month <= 2 THEN 1 ELSE 0)
    IN  [year |-> year, month |-> month, day |-> day]

\* Display of NaiveDate: {:04}-{:02}-{:02}
DisplayDate(d) ==
    PadDec(d.year, 4) \o <<45>> \o PadDec(d.month, 2) \o <<45>> \o PadDec(d.day, 2)

\* Display of NaiveTime: {:02}:{:02}:{:02}, then the fraction only when nano /= 0
DisplayTime(secs, nano) ==
    PadDec(secs \div 3600, 2) \o <<58>> \o PadDec((secs \div 60) % 60, 2)
        \o <<58>> \o PadDec(secs % 60, 2)
        \o (IF nano = 0 THEN <<>>
            ELSE IF nano % 1000000 = 0 THEN <<46>> \o PadDec(nano \div 1000000, 3)
            ELSE IF nano % 1000 = 0 THEN <<46>> \o PadDec(nano \div 1000, 6)
            ELSE <<46>> \o PadDec(nano, 9))

\* format!("{}", Utc.timestamp(seconds, nanos)): "<date> <time> UTC"
DisplayUtc(seconds, nanos) ==
    LET dm == WideDivMod(seconds, 86400)
    IN  DisplayDate(CivilFromDays(dm.q)) \o <<32>> \o DisplayTime(dm.r, nanos)
            \o <<32, 85, 84, 67>>

(***************************************************************************)
(* append_epoch_timestamp                                                  *)
(***************************************************************************)
RECURSIVE Reverse(_)
Reverse(s) == IF s = <<>> THEN <<>> ELSE Append(Reverse(Tail(s)), Head(s))

RECURSIVE ParseLoop(_, _)
\* the loop of lines 98-105: pop the last byte, timestamp = timestamp*10 + digit
ParseLoop(stack, timestamp) ==
    IF stack = <<>>
    THEN timestamp
    ELSE LET next == stack[Len(stack)]
         IN  ParseLoop(SubSeq(stack, 1, Len(stack) - 1),
                       WideMulAdd(timestamp, 10, next - 48))

\* nanos of the match at lines 107-113; -1 stands for the panic arm
NanosOf(digit_count, timestamp) ==
    IF digit_count = DIGITS_IN_EPOCH_MILLISECOND_TIMESTAMP
    THEN WideRem1000(timestamp) * NANOS_PER_MILLISECOND
    ELSE IF digit_count = DIGITS_IN_EPOCH_SECOND_TIMESTAMP THEN 0
    ELSE -1

\* SecondsOf without the division by 1000 of the millisecond arm
SecondsOfUndivided(digit_count, timestamp) == timestamp

\* seconds of the match at lines 114-118
SecondsOf(digit_count, timestamp) ==
    IF digit_count = DIGITS_IN_EPOCH_MILLISECOND_TIMESTAMP
    THEN WideDiv1000(timestamp)
    ELSE timestamp

\* The bytes append_epoch_timestamp pushes for an accumulator of 10 or 13 digits
TimestampStr(acc) ==
    LET digit_count == Len(acc)
        timestamp   == ParseLoop(Reverse(acc), <<>>)
    IN  <<91>> \o DisplayUtc(SecondsOf(digit_count, timestamp),
                            NanosOf(digit_count, timestamp)) \o <<93>>

\* append_epoch_timestamp(&mut integer_accumulator, &mut append_buffer):
\* the two vectors afterwards, or a panic for any other digit count
append_epoch_timestamp(acc, append_buffer) ==
    IF Len(acc) \in {DIGITS_IN_EPOCH_MILLISECOND_TIMESTAMP,
                     DIGITS_IN_EPOCH_SECOND_TIMESTAMP}
    THEN [integer_accumulator |-> <<>>,
          append_buffer |-> append_bytes(TimestampStr(acc), append_buffer),
          panic |-> FALSE]
    ELSE [integer_accumulator |-> <<>>,
          append_buffer |-> append_buffer,
          panic |-> TRUE]

is_epoch_millisecond_timestamp(acc) == Len(acc) = DIGITS_IN_EPOCH_MILLISECOND_TIMESTAMP

\* is_epoch_second_timestamp with the width off by one
is_epoch_second_timestamp_eleven(acc) ==
    Len(acc) = DIGITS_IN_EPOCH_SECOND_TIMESTAMP + 1

is_epoch_second_timestamp(acc) == Len(acc) = DIGITS_IN_EPOCH_SECOND_TIMESTAMP

(***************************************************************************)
(* replace_epoch_timestamps_in_buffer                                      *)
(***************************************************************************)
\* lines 56-60 and 66-70: the accumulator is formatted when it holds exactly
\* 13 or exactly 10 bytes; otherwise neither vector changes
Resolve(s) ==
    IF is_epoch_millisecond_timestamp(s.integer_accumulator)
    THEN LET r == append_epoch_timestamp(s.integer_accumulator, s.replaced)
         IN  [integer_accumulator |-> r.integer_accumulator, replaced |-> r.append_buffer]
    ELSE IF is_epoch_second_timestamp(s.integer_accumulator)
    THEN LET r == append_epoch_timestamp(s.integer_accumulator, s.replaced)
         IN  [integer_accumulator |-> r.integer_accumulator, replaced |-> r.append_buffer]
    ELSE s

\* lines 56-60 and 66-70 reach append_epoch_timestamp, and it takes a
\* `Cannot handle {} digits` arm (lines 112, 117)
ResolvePanics(s) ==
    /\ is_epoch_millisecond_timestamp(s.integer_accumulator)
           \/ is_epoch_second_timestamp(s.integer_accumulator)
    /\ append_epoch_timestamp(s.integer_accumulator, s.replaced).panic

\* lines 65-71 panic
AtEndPanics(s, eoi) == eoi /\ ResolvePanics(s)

\* line 54: a digit byte is pushed onto the accumulator
PushDigit(s, b) ==
    [s EXCEPT !.integer_accumulator = Append(@, b)]

\* PushOther with the byte lost whenever a timestamp was written
PushOtherLosingByte(s, b) ==
    LET r == Resolve(s)
    IN  IF r = s THEN [r EXCEPT !.replaced = Append(@, b)] ELSE r

\* lines 56-62: a non-digit byte resolves the accumulator and is pushed
PushOther(s, b) ==
    LET r == Resolve(s)
    IN  [r EXCEPT !.replaced = Append(@, b)]

\* the body of the for loop, lines 53-63
ScanByte(s, b) ==
    IF IsAsciiDigit(b) THEN PushDigit(s, b) ELSE PushOther(s, b)

\* AtEnd without the test of end_of_input
AtEndAlways(s, eoi) == Resolve(s)

\* lines 65-71
AtEnd(s, eoi) == IF eoi THEN Resolve(s) ELSE s

\* Result with the unresolved accumulator flushed into the data
ResultWithAccumulator(in, s) ==
    IF Len(s.replaced) /= 0
    THEN [data |-> s.replaced \o s.integer_accumulator,
          left_over_data |-> Len(s.integer_accumulator)]
    ELSE [data |-> in, left_over_data |-> Len(s.integer_accumulator)]

\* Result reporting the length of the input as leftover
ResultLeftoverIsLength(in, s) ==
    IF Len(s.replaced) /= 0
    THEN [data |-> s.replaced, left_over_data |-> Len(in)]
    ELSE [data |-> in, left_over_data |-> Len(in)]

\* lines 73-83: the ReplacementResult
Result(in, s) ==
    IF Len(s.replaced) /= 0
    THEN [data |-> s.replaced, left_over_data |-> Len(s.integer_accumulator)]
    ELSE [data |-> in, left_over_data |-> Len(s.integer_accumulator)]

RECURSIVE ScanLoop(_, _, _, _)
\* for index in from..to (0-based, to exclusive), lines 52-64. The range is
\* walked in two halves, in order; the state after the first half is computed
\* (its length is looked at) before the second half starts, so that a whole
\* buffer of BUFFER_SIZE bytes is evaluated at a depth of its logarithm.
ScanLoop(in, from, to, s) ==
    IF from >= to
    THEN s
    ELSE IF to = from + 1
    THEN ScanByte(s, in[from + 1])
    ELSE LET mid == (from + to) \div 2
             first == ScanLoop(in, from, mid, s)
         IN  IF Len(first.replaced) >= 0
             THEN ScanLoop(in, mid, to, first)
             ELSE first

\* lines 49-84 as a function of its arguments
replace_epoch_timestamps_in_buffer(in, in_length, eoi) ==
    Result(in, AtEnd(ScanLoop(in, 0, in_length,
                              [integer_accumulator |-> <<>>, replaced |-> <<>>]), eoi))

\* lines 45-47
replace_epoch_timestamps(in, eoi) ==
    replace_epoch_timestamps_in_buffer(in, Len(in), eoi)

(***************************************************************************)
(* Inputs: up to three digit runs divided by up to two non-digit bytes     *)
(***************************************************************************)
\* digits of the timestamp the tests use, and of one on a whole second
DigitPatterns ==
    { <<49, 53, 51, 48, 50, 49, 54, 48, 55, 48, 51, 49, 55>>,
      <<49, 53, 51, 48, 50, 49, 54, 48, 55, 48, 48, 48, 48>> }

\* ':', '[' and 'a'
OtherBytes == {58, 91, 97}

Run(p, n) == [k \in 1..n |-> p[((k - 1) % Len(p)) + 1]]

Dividers == {<<>>} \cup {<<b>> : b \in OtherBytes}

InputsUpTo(n) ==
    UNION { { Run(q[1], q[2]) \o d1 \o Run(q[1], q[3]) \o d2 \o Run(q[1], q[4]) :
                d1 \in Dividers, d2 \in Dividers }
            : q \in { t \in DigitPatterns \X (0..n) \X (0..n) \X (0..n) :
                        t[2] + t[3] + t[4] + 2 <= n } }

Inputs == InputsUpTo(MaxLen)

(***************************************************************************)
(* One call of replace_epoch_timestamps, a loop iteration per step         *)
(***************************************************************************)
st == [integer_accumulator |-> integer_accumulator, replaced |-> replaced]

Init ==
    /\ input \in Inputs
    /\ input_length = Len(input)
    /\ end_of_input \in BOOLEAN
    /\ index = 0
    /\ replaced = <<>>
    /\ integer_accumulator = <<>>
    /\ pc = "loop"
    /\ data = <<>>
    /\ left_over_data = 0
    /\ source = <<>>
    /\ offset = 0
    /\ written = <<>>
    /\ calls = 0

\* lines 53-54
Digit ==
    /\ pc = "loop"
    /\ index < input_length
    /\ IsAsciiDigit(input[index + 1])
    /\ integer_accumulator' = PushDigit(st, input[index + 1]).integer_accumulator
    /\ replaced' = PushDigit(st, input[index + 1]).replaced
    /\ index' = index + 1
    /\ UNCHANGED <<input, input_length, end_of_input, pc, data, left_over_data,
                   source, offset, written, calls>>

\* lines 55-63
Other ==
    /\ pc = "loop"
    /\ index < input_length
    /\ ~IsAsciiDigit(input[index + 1])
    /\ IF ResolvePanics(st)
       THEN /\ pc' = "panic"
            /\ UNCHANGED <<integer_accumulator, replaced, index>>
       ELSE /\ integer_accumulator' = PushOther(st, input[index + 1]).integer_accumulator
            /\ replaced' = PushOther(st, input[index + 1]).replaced
            /\ index' = index + 1
            /\ pc' = pc
    /\ UNCHANGED <<input, input_length, end_of_input, data, left_over_data,
                   source, offset, written, calls>>

\* lines 65-83
Return ==
    /\ pc = "loop"
    /\ index = input_length
    /\ IF AtEndPanics(st, end_of_input)
       THEN /\ pc' = "panic"
            /\ UNCHANGED <<integer_accumulator, replaced, data, left_over_data>>
       ELSE LET e == AtEnd(st, end_of_input)
                r == Result(input, e)
            IN  /\ integer_accumulator' = e.integer_accumulator
                /\ replaced' = e.replaced
                /\ data' = r.data
                /\ left_over_data' = r.left_over_data
                /\ pc' = "done"
    /\ UNCHANGED <<input, input_length, end_of_input, index, source, offset, written,
                   calls>>

Next == Digit \/ Other \/ Return

Spec == Init /\ [][Next]_vars

(***************************************************************************)
(* A driver feeding one source chunk by chunk: each call gets the last     *)
(* left_over_data bytes of the previous chunk followed by the next bytes   *)
(* of the source, end_of_input = TRUE on the last chunk only               *)
(***************************************************************************)
InitChunks ==
    /\ source \in InputsUpTo(MaxSource)
    /\ offset = 0
    /\ written = <<>>
    /\ calls = 0
    /\ input = <<>>
    /\ input_length = 0
    /\ end_of_input = FALSE
    /\ index = 0
    /\ replaced = <<>>
    /\ integer_accumulator = <<>>
    /\ pc = "idle"
    /\ data = <<>>
    /\ left_over_data = 0

\* the chunk of the next call: the carry, then n fresh bytes of the source
NextChunk(n) ==
    SubSeq(input, Len(input) - left_over_data + 1, Len(input))
        \o SubSeq(source, offset + 1, offset + n)

\* one call of replace_epoch_timestamps on the chunk, its data written out
Feed(n, last) ==
    LET chunk == NextChunk(n)
        e == AtEnd(ScanLoop(chunk, 0, Len(chunk),
                            [integer_accumulator |-> <<>>, replaced |-> <<>>]), last)
        r == replace_epoch_timestamps(chunk, last)
    IN  /\ input' = chunk
        /\ input_length' = Len(chunk)
        /\ end_of_input' = last
        /\ index' = Len(chunk)
        /\ integer_accumulator' = e.integer_accumulator
        /\ replaced' = e.replaced
        /\ data' = r.data
        /\ left_over_data' = r.left_over_data
        /\ written' = written \o r.data
        /\ offset' = offset + n
        /\ calls' = calls + 1
        /\ UNCHANGED source

\* a chunk that is not the last one
FeedMore ==
    /\ pc = "idle"
    /\ calls + 1 < MaxChunks
    /\ \E n \in 1..(Len(source) - offset - 1) : Feed(n, FALSE)
    /\ pc' = "idle"

\* the last chunk: everything that remains of the source
FeedLast ==
    /\ pc = "idle"
    /\ Feed(Len(source) - offset, TRUE)
    /\ pc' = "finished"

NextChunks == FeedMore \/ FeedLast

SpecChunks == InitChunks /\ [][NextChunks]_vars

(***************************************************************************)
(* Vocabulary of the properties                                            *)
(***************************************************************************)
IsSuffix(t, s) ==
    Len(t) <= Len(s) /\ SubSeq(s, Len(s) - Len(t) + 1, Len(s)) = t

AllDigits(s) == \A k \in 1..Len(s) : IsAsciiDigit(s[k])

OthersOf(s) == SelectSeq(s, LAMBDA b : ~IsAsciiDigit(b))

RECURSIVE TrailingRunLen(_)
\* length of the maximal run of digit bytes at the very end of s
TrailingRunLen(s) ==
    IF s = <<>> \/ ~IsAsciiDigit(s[Len(s)])
    THEN 0
    ELSE 1 + TrailingRunLen(SubSeq(s, 1, Len(s) - 1))

TrailingRun(s) == SubSeq(s, Len(s) - TrailingRunLen(s) + 1, Len(s))

WithoutTrailingRun(s) == SubSeq(s, 1, Len(s) - TrailingRunLen(s))

\* the maximal digit run that ends right before position i of s
RunBefore(s, i) == TrailingRun(SubSeq(s, 1, i - 1))

\* s holds a maximal digit run of exactly 10 or exactly 13 bytes
HasTimestampRun(s) ==
    \E i \in 1..(Len(s) + 1) :
        /\ i = Len(s) + 1 \/ ~IsAsciiDigit(s[i])
        /\ Len(RunBefore(s, i)) \in {DIGITS_IN_EPOCH_SECOND_TIMESTAMP,
                                     DIGITS_IN_EPOCH_MILLISECOND_TIMESTAMP}

\* [YYYY-MM-DD HH:MM:SS UTC] and [YYYY-MM-DD HH:MM:SS.mmm UTC]; 0 is any digit
SecondsForm ==
    <<91, 0, 0, 0, 0, 45, 0, 0, 45, 0, 0, 32, 0, 0, 58, 0, 0, 58, 0, 0,
      32, 85, 84, 67, 93>>

MillisForm ==
    <<91, 0, 0, 0, 0, 45, 0, 0, 45, 0, 0, 32, 0, 0, 58, 0, 0, 58, 0, 0,
      46, 0, 0, 0, 32, 85, 84, 67, 93>>

\* s begins with a string of the form f
BeginsWith(s, f) ==
    /\ Len(s) >= Len(f)
    /\ \A k \in 1..Len(f) : IF f[k] = 0 THEN IsAsciiDigit(s[k]) ELSE s[k] = f[k]

HasForm(s, f) == Len(s) = Len(f) /\ BeginsWith(s, f)

RECURSIVE StripInserted(_)
\* s without its bracketed timestamp strings and without its digits
StripInserted(s) ==
    IF s = <<>> THEN <<>>
    ELSE IF BeginsWith(s, MillisForm)
    THEN StripInserted(SubSeq(s, Len(MillisForm) + 1, Len(s)))
    ELSE IF BeginsWith(s, SecondsForm)
    THEN StripInserted(SubSeq(s, Len(SecondsForm) + 1, Len(s)))
    ELSE IF IsAsciiDigit(Head(s)) THEN StripInserted(Tail(s))
    ELSE <<Head(s)>> \o StripInserted(Tail(s))

Widths == {DIGITS_IN_EPOCH_SECOND_TIMESTAMP, DIGITS_IN_EPOCH_MILLISECOND_TIMESTAMP}

\* the loop has just processed the non-digit byte input[index]
AfterOther == pc = "loop" /\ index >= 1 /\ ~IsAsciiDigit(input[index])

(***************************************************************************)
(* Properties                                                              *)
(***************************************************************************)
\* C1: cutting a source into consecutive chunks, carrying the last
\* left_over_data bytes of each chunk into the next, and concatenating the
\* returned data gives the data of one call on the whole source with
\* end_of_input = TRUE.
C1_ChunkSplitInvariance ==
    pc = "finished" => written = replace_epoch_timestamps(source, TRUE).data

\* C2: a maximal digit run of exactly 10 or 13 bytes that a non-digit byte
\* follows is replaced, at its place, by the timestamp string of its own value.
C2_ExactWidthReplaced ==
    (AfterOther /\ Len(RunBefore(input, index)) \in Widths)
        => IsSuffix(TimestampStr(RunBefore(input, index)) \o <<input[index]>>, replaced)

\* C3: a maximal digit run of any other length that a non-digit byte follows
\* appears as its own digits right before that byte.
C3_OtherWidthsLiteral ==
    (AfterOther /\ Len(RunBefore(input, index)) \notin Widths)
        => IsSuffix(RunBefore(input, index) \o <<input[index]>>, replaced)

\* C4: an input without a maximal run of exactly 10 or 13 digits comes back
\* byte-identical when end_of_input = TRUE.
C4_IdentityWithoutTimestamps ==
    (pc = "done" /\ end_of_input /\ ~HasTimestampRun(input)) => data = input

\* C5: with end_of_input = FALSE, left_over_data is the length of the maximal
\* digit run at the very end of the chunk (0 when the last byte is no digit).
C5_LeftoverIsTrailingRun ==
    (pc = "done" /\ ~end_of_input) => left_over_data = TrailingRunLen(input)

C7_AllDigitChunkMidStream ==
    (pc = "done" /\ ~end_of_input /\ AllDigits(input) /\ Len(input) \in Widths)
        => data = input /\ left_over_data = Len(input)

C7_Witness ==
    /\ pc = "done" /\ ~end_of_input
    /\ AllDigits(input) /\ Len(input) = DIGITS_IN_EPOCH_MILLISECOND_TIMESTAMP
    /\ data = input
    /\ left_over_data = DIGITS_IN_EPOCH_MILLISECOND_TIMESTAMP

\* C8: with end_of_input = TRUE, left_over_data is 0 and the data ends with
\* the trailing digit run finalized: its timestamp string when it has 10 or
\* 13 digits, its literal digits otherwise.
C8_ForcedResolution ==
    (pc = "done" /\ end_of_input)
        => /\ left_over_data = 0
           /\ IsSuffix(IF TrailingRunLen(input) \in Widths
                       THEN TimestampStr(TrailingRun(input))
                       ELSE TrailingRun(input), data)

\* C9: the non-digit bytes of the input are in the data unchanged, each once
\* and in their order; everything else in the data is digits or bracketed
\* timestamp strings.
C9_OtherBytesUntouched ==
    pc = "done" => StripInserted(data) = OthersOf(input)

C9_Witness ==
    /\ pc = "done"
    /\ OthersOf(input) = <<97, 58>>
    /\ \E k \in 1..Len(data) : data[k] = 91
    /\ Len(data) > Len(input)

\* C10: a 13-digit accumulator is formatted as [YYYY-MM-DD HH:MM:SS.mmm UTC],
\* mmm being its last three digits, and a 10-digit accumulator as
\* [YYYY-MM-DD HH:MM:SS UTC].
C10_MillisecondFormHasThreeDigits ==
    [][(pc = "loop" /\ replaced' /= replaced /\ Len(integer_accumulator) \in Widths)
        => LET to == IF pc' = "done" THEN Len(replaced') ELSE Len(replaced') - 1
               str == SubSeq(replaced', Len(replaced) + 1, to)
           IN  IF Len(integer_accumulator) = DIGITS_IN_EPOCH_MILLISECOND_TIMESTAMP
               THEN /\ HasForm(str, MillisForm)
                    /\ SubSeq(str, 22, 24) = SubSeq(integer_accumulator, 11, 13)
               ELSE HasForm(str, SecondsForm)]_vars

(***************************************************************************)
(* Vocabulary of the numeric properties                                    *)
(***************************************************************************)
\* i64::MAX = 9223372036854775807 as a wide number
I64Max == <<807, 775, 854, 36, 372, 223, 9>>

RECURSIVE WideLeq(_, _)
\* a <= b for wide numbers without leading zero limbs
WideLeq(a, b) ==
    IF Len(a) /= Len(b) THEN Len(a) < Len(b)
    ELSE IF a = <<>> THEN TRUE
    ELSE IF a[Len(a)] /= b[Len(b)] THEN a[Len(a)] < b[Len(b)]
    ELSE WideLeq(SubSeq(a, 1, Len(a) - 1), SubSeq(b, 1, Len(b) - 1))

\* the decimal digits 0..9 that the bytes of s stand for
DigitsOf(s) == [k \in 1..Len(s) |-> s[k] - 48]

RECURSIVE WideNorm(_)
\* w without its most significant zero limbs
WideNorm(w) ==
    IF w = <<>> \/ w[Len(w)] /= 0 THEN w ELSE WideNorm(SubSeq(w, 1, Len(w) - 1))

RECURSIVE WideFromDecimal(_)
\* the number a sequence of decimal digits writes, three digits per limb
WideFromDecimal(d) ==
    IF d = <<>> THEN <<>>
    ELSE IF Len(d) = 1 THEN <<d[1]>>
    ELSE IF Len(d) = 2 THEN <<10 * d[1] + d[2]>>
    ELSE <<100 * d[Len(d) - 2] + 10 * d[Len(d) - 1] + d[Len(d)]>>
             \o WideFromDecimal(SubSeq(d, 1, Len(d) - 3))

ValueOf(d) == WideNorm(WideFromDecimal(d))

\* the timestamp after the first k bytes of acc went through the parsing loop
ParsedPrefix(acc, k) == ParseLoop(Reverse(SubSeq(acc, 1, k)), <<>>)

\* this step calls append_epoch_timestamp and appends its string
Appends ==
    /\ pc = "loop"
    /\ Len(integer_accumulator) \in Widths
    /\ replaced' /= replaced

\* the string this step appended, without the non-digit byte pushed after it
Appended ==
    SubSeq(replaced', Len(replaced) + 1,
           IF pc' = "done" THEN Len(replaced') ELSE Len(replaced') - 1)

(***************************************************************************)
(* Properties of the core, continued                                       *)
(***************************************************************************)
\* C11: a call never panics: append_epoch_timestamp is only reached with an
\* accumulator of exactly 10 or 13 bytes, so no `Cannot handle {} digits`
\* arm is taken.
C11_NoPanic ==
    /\ pc /= "panic"
    /\ (is_epoch_millisecond_timestamp(integer_accumulator)
            \/ is_epoch_second_timestamp(integer_accumulator))
        => /\ Len(integer_accumulator) \in {10, 13}
           /\ ~append_epoch_timestamp(integer_accumulator, replaced).panic

C11_Witness ==
    /\ pc = "done"
    /\ ~end_of_input
    /\ left_over_data > 0
    /\ \E k \in 1..Len(data) : BeginsWith(SubSeq(data, k, Len(data)), MillisForm)

\* C13: right after a non-digit byte was processed the accumulator is empty,
\* so the accumulator always holds exactly the open digit run that ends at
\* the current position.
C13_AccumulatorClearedAtTerminator ==
    /\ AfterOther => integer_accumulator = <<>>
    /\ pc = "loop" => integer_accumulator = TrailingRun(SubSeq(input, 1, index))

\* C14: every accumulator byte is in '0'..'9'; when append_epoch_timestamp
\* can run (10 or 13 bytes), each running value of timestamp*10 + digit is
\* at most i64::MAX and the nanoseconds are below 1_000_000_000.
C14_ParsingStaysInRange ==
    /\ \A k \in 1..Len(integer_accumulator) :
            integer_accumulator[k] >= 48 /\ integer_accumulator[k] <= 57
    /\ Len(integer_accumulator) \in {10, 13}
        => /\ \A k \in 0..Len(integer_accumulator) :
                  WideLeq(ParsedPrefix(integer_accumulator, k), I64Max)
           /\ LET nanos == NanosOf(Len(integer_accumulator),
                                   ParsedPrefix(integer_accumulator,
                                                Len(integer_accumulator)))
              IN  nanos >= 0 /\ nanos < 1000000000

C14_Witness ==
    /\ pc = "loop"
    /\ Len(integer_accumulator) = 13
    /\ index < input_length
    /\ input[index + 1] \in OtherBytes
    /\ NanosOf(13, ParsedPrefix(integer_accumulator, 13)) = 317000000

\* C15: the string appended for a 13-digit run of value m is the one of
\* seconds = m / 1000 and nanoseconds = (m mod 1000) * 1_000_000, for a
\* 10-digit run of value m the one of seconds = m and nanoseconds = 0, and
\* seconds * 1000 + nanoseconds / 1_000_000 is the run's value in milliseconds.
C15_SecondsNanosDecomposition ==
    [][Appends =>
        LET d     == DigitsOf(integer_accumulator)
            n     == Len(d)
            ts    == ParsedPrefix(integer_accumulator, n)
            secs  == ValueOf(SubSeq(d, 1, 10))
            nanos == IF n = 13
                     THEN (100 * d[11] + 10 * d[12] + d[13]) * 1000000
                     ELSE 0
            ms    == ValueOf(IF n = 13 THEN d ELSE d \o <<0, 0, 0>>)
        IN  /\ SecondsOf(n, ts) = secs
            /\ NanosOf(n, ts) = nanos
            /\ WideMulAdd(SecondsOf(n, ts), 1000, NanosOf(n, ts) \div 1000000) = ms
            /\ Appended = <<91>> \o DisplayUtc(secs, nanos) \o <<93>>]_vars

C15_Witness ==
    /\ pc = "done"
    /\ end_of_input
    /\ AllDigits(input)
    /\ Len(input) = 13
    /\ HasForm(data, MillisForm)

\* C18: left_over_data is at most the number of digit bytes among the
\* input_length bytes processed, hence at most input_length.
C18_LeftoverBoundedByChunk ==
    pc = "done"
        => /\ left_over_data <= Len(SelectSeq(SubSeq(input, 1, input_length),
                                              IsAsciiDigit))
           /\ left_over_data <= input_length

C18_Witness ==
    /\ pc = "done"
    /\ left_over_data > TrailingRunLen(input)
    /\ left_over_data = Len(SelectSeq(input, IsAsciiDigit))
    /\ left_over_data < input_length

(***************************************************************************)
(* process_files: every file is read once into the one buffer, transformed *)
(* and written to its .depoch file                                         *)
(***************************************************************************)
\* files: nothing or about BUFFER_SIZE bytes of 'b', then a few of '1', 'a'
FileTails == UNION { [1..n -> {49, 97}] : n \in 0..MaxTail }

Fill(k) == [i \in 1..k |-> 98]

Files ==
    { Fill(k) \o t : k \in {0} \cup ((BUFFER_SIZE - 1)..BUFFER_SIZE), t \in FileTails }

\* line 16, before the first file
InitFiles ==
    /\ input = [i \in 1..BUFFER_SIZE |-> 0]
    /\ input_length = 0
    /\ end_of_input = FALSE
    /\ index = 0
    /\ replaced = <<>>
    /\ integer_accumulator = <<>>
    /\ pc = "open"
    /\ data = <<>>
    /\ left_over_data = 0
    /\ source = <<>>
    /\ offset = 0
    /\ written = <<>>
    /\ calls = 0

\* lines 17-24: the next file is opened and its target file created
OpenFile ==
    /\ pc = "open"
    /\ calls < MaxFiles
    /\ source' \in Files
    /\ offset' = 0
    /\ written' = <<>>
    /\ pc' = "read"
    /\ UNCHANGED <<input, input_length, end_of_input, index, replaced,
                   integer_accumulator, data, left_over_data, calls>>

\* lines 25-27: one read fills the front of the buffer
ReadFile ==
    /\ pc = "read"
    /\ LET rest == Len(source) - offset
           read_length == IF rest < Len(input) THEN rest ELSE Len(input)
       IN  /\ input' = SubSeq(source, offset + 1, offset + read_length)
                           \o SubSeq(input, read_length + 1, Len(input))
           /\ input_length' = read_length
           /\ offset' = offset + read_length
           /\ pc' = IF read_length /= 0 THEN "call" ELSE "flush"
    /\ UNCHANGED <<end_of_input, index, replaced, integer_accumulator, data,
                   left_over_data, source, written, calls>>

\* line 28
CallReplace ==
    /\ pc = "call"
    /\ LET eoi == input_length < Len(input)
           e == AtEnd(ScanLoop(input, 0, input_length,
                               [integer_accumulator |-> <<>>, replaced |-> <<>>]), eoi)
           r == Result(input, e)
       IN  /\ end_of_input' = eoi
           /\ index' = input_length
           /\ integer_accumulator' = e.integer_accumulator
           /\ replaced' = e.replaced
           /\ data' = r.data
           /\ left_over_data' = r.left_over_data
    /\ pc' = "write"
    /\ UNCHANGED <<input, input_length, source, offset, written, calls>>

\* lines 29-30
WriteTarget ==
    /\ pc = "write"
    /\ written' = written \o data
    /\ pc' = "flush"
    /\ UNCHANGED <<input, input_length, end_of_input, index, replaced,
                   integer_accumulator, data, left_over_data, source, offset, calls>>

\* line 36, and on to the next file
FlushTarget ==
    /\ pc = "flush"
    /\ calls' = calls + 1
    /\ pc' = "open"
    /\ UNCHANGED <<input, input_length, end_of_input, index, replaced,
                   integer_accumulator, data, left_over_data, source, offset, written>>

NextFiles == OpenFile \/ ReadFile \/ CallReplace \/ WriteTarget \/ FlushTarget

SpecFiles == InitFiles /\ [][NextFiles]_vars

(***************************************************************************)
(* Properties of process_files                                             *)
(***************************************************************************)
\* C12: once a file is done, its .depoch file holds exactly the data of one
\* call on the whole content of the file with end_of_input = TRUE.
C12_WholeFileTransformed ==
    (pc = "open" /\ calls >= 1)
        => written = replace_epoch_timestamps(source, TRUE).data

\* C16: when process_files has called the transformation on a chunk,
\* end_of_input was TRUE exactly when the file had no bytes left to read.
C16_EndOfInputOnFinalChunk ==
    pc = "write" => (end_of_input <=> offset = Len(source))

\* C17: the data returned for (input, input_length, flag) is the data of the
\* first input_length bytes alone, so nothing of the buffer beyond the bytes
\* read reaches the target file.
C17_OutputDependsOnlyOnBytesRead ==
    pc = "write"
        => data = replace_epoch_timestamps(SubSeq(input, 1, input_length),
                                           end_of_input).data

====
